---- MODULE Spec2Model ----
(***************************************************************************)
(* Model of the availability-aware booking logic of alx_travel_app:        *)
(* listings/views.py (ListingViewSet, BookingViewSet).                     *)
(*                                                                         *)
(* Spec serves one request at a time: every handler is one action.         *)
(* SpecConc serves requests on concurrent workers: a handler that reads    *)
(* the store and later writes it takes two steps, because views.py opens   *)
(* no transaction and takes no lock between the read and the write.        *)
(*                                                                         *)
(* Dates are day numbers.  A query parameter is an integer: Absent for a   *)
(* key that is not in query_params (.get returns None), Blank for the      *)
(* empty string, and a day number d >= 1 for the ISO date of day d.        *)
(***************************************************************************)
EXTENDS Integers, Sequences, FiniteSets, TLC

\* ---- bounds ----
MaxDay == 3
MaxBookings == 2

Days == 1..MaxDay
Users == {"alice", "bob"}
Workers == {"w1", "w2"}

\* ---- query parameter encoding ----
Absent == -1
Blank == 0
DateParams == {Absent, Blank} \cup Days
PriceParams == {Absent, 2}
\* a date field of a request body: missing, or the ISO date of a day
BodyDates == {Absent} \cup Days

VARIABLES listings, bookings, pc, req, last
vars == <<listings, bookings, pc, req, last>>

\* Python truthiness of a query parameter value: None and "" are falsy.
Truthy(p) == p # Absent /\ p # Blank

\* ---- ListingViewSet ----

\* mutant: Listing.objects.all()
queryset_all(ls) == ls

\* queryset = Listing.objects.filter(is_active=True)
queryset(ls) == SelectSeq(ls, LAMBDA l : l.is_active)

\* mutant: cancelled bookings are screened as well
overlapping_bookings_cancelled(bs, check_in, check_out) ==
    { bs[i].listing : i \in { k \in DOMAIN bs :
          /\ bs[k].check_in_date < check_out
          /\ bs[k].check_out_date > check_in
          /\ bs[k].status \in {"confirmed", "pending", "cancelled"} } }

\* mutant: closed intervals, __lte and __gte in place of __lt and __gt
overlapping_bookings_closed(bs, check_in, check_out) ==
    { bs[i].listing : i \in { k \in DOMAIN bs :
          /\ bs[k].check_in_date <= check_out
          /\ bs[k].check_out_date >= check_in
          /\ bs[k].status \in {"confirmed", "pending"} } }

\* mutant: pending bookings are not screened
overlapping_bookings_confirmedOnly(bs, check_in, check_out) ==
    { bs[i].listing : i \in { k \in DOMAIN bs :
          /\ bs[k].check_in_date < check_out
          /\ bs[k].check_out_date > check_in
          /\ bs[k].status \in {"confirmed"} } }

\* Booking.objects.filter(Q(check_in_date__lt=check_out) & Q(check_out_date__gt=check_in),
\*                        status__in=['confirmed', 'pending']).values_list('listing_id')
overlapping_bookings(bs, check_in, check_out) ==
    { bs[i].listing : i \in { k \in DOMAIN bs :
          /\ bs[k].check_in_date < check_out
          /\ bs[k].check_out_date > check_in
          /\ bs[k].status \in {"confirmed", "pending"} } }

\* mutant: a lone check_in_date filters as an open-ended range
Listing_get_queryset_openEnded(ls, bs, min_price, max_price, check_in, check_out) ==
    LET q0 == SelectSeq(ls, LAMBDA l : l.is_active)
        q1 == IF min_price # Absent
              THEN SelectSeq(q0, LAMBDA l : l.price_per_night >= min_price)
              ELSE q0
        q2 == IF max_price # Absent
              THEN SelectSeq(q1, LAMBDA l : l.price_per_night <= max_price)
              ELSE q1
    IN  IF Truthy(check_in)
        THEN LET excluded == overlapping_bookings(bs, check_in,
                                 IF Truthy(check_out) THEN check_out ELSE MaxDay + 2)
             IN  SelectSeq(q2, LAMBDA l : l.id \notin excluded)
        ELSE q2

\* ListingViewSet.get_queryset
Listing_get_queryset(ls, bs, min_price, max_price, check_in, check_out) ==
    LET q0 == queryset(ls)
        q1 == IF min_price # Absent
              THEN SelectSeq(q0, LAMBDA l : l.price_per_night >= min_price)
              ELSE q0
        q2 == IF max_price # Absent
              THEN SelectSeq(q1, LAMBDA l : l.price_per_night <= max_price)
              ELSE q1
    IN  IF Truthy(check_in) /\ Truthy(check_out)
        THEN LET excluded == overlapping_bookings(bs, check_in, check_out)
             IN  SelectSeq(q2, LAMBDA l : l.id \notin excluded)
        ELSE q2

Ids(q) == [i \in DOMAIN q |-> q[i].id]

\* ---- BookingCreateSerializer (serializers.py) ----

\* mutant: only confirmed bookings block a request
isAvailable_confirmedOnly(bs, listing, check_in, check_out) ==
    ~ \E i \in DOMAIN bs :
          /\ bs[i].listing = listing
          /\ bs[i].status = "confirmed"
          /\ bs[i].check_in_date < check_out
          /\ bs[i].check_out_date > check_in

\* isAvailable: single-listing form of the overlap test
isAvailable(bs, listing, check_in, check_out) ==
    ~ \E i \in DOMAIN bs :
          /\ bs[i].listing = listing
          /\ bs[i].status \in {"pending", "confirmed"}
          /\ bs[i].check_in_date < check_out
          /\ bs[i].check_out_date > check_in

\* mutant: the order of the two dates is not checked
validate_anyOrder(ls, bs, listing, check_in, check_out) ==
    IF ~ Truthy(check_in) \/ ~ Truthy(check_out) THEN "ValidationError"
    ELSE IF ~ \E i \in DOMAIN ls : ls[i].id = listing /\ ls[i].is_active
         THEN "NotFound"
    ELSE IF ~ isAvailable(bs, listing, check_in, check_out) THEN "Conflict"
    ELSE "ok"

\* serializer.is_valid(): the error raised, or "ok"
validate(ls, bs, listing, check_in, check_out) ==
    IF ~ Truthy(check_in) \/ ~ Truthy(check_out) THEN "ValidationError"
    ELSE IF check_in >= check_out THEN "ValidationError"
    ELSE IF ~ \E i \in DOMAIN ls : ls[i].id = listing /\ ls[i].is_active
         THEN "NotFound"
    ELSE IF ~ isAvailable(bs, listing, check_in, check_out) THEN "Conflict"
    ELSE "ok"

\* status given to a new Booking row
DefaultStatus == "pending"

\* ---- BookingViewSet ----

\* mutant: Booking.objects.all()
Booking_get_queryset_all(bs, user) == DOMAIN bs

\* get_queryset: Booking.objects.filter(user=self.request.user), as primary keys
Booking_get_queryset(bs, user) == { i \in DOMAIN bs : bs[i].user = user }

\* mutant: serializer.save() without the user
perform_create_noUser(bs, validated_data, user) ==
    Append(bs, [listing        |-> validated_data.listing,
                user           |-> "none",
                check_in_date  |-> validated_data.check_in_date,
                check_out_date |-> validated_data.check_out_date,
                status         |-> DefaultStatus])

\* perform_create: serializer.save(user=self.request.user)
perform_create(bs, validated_data, user) ==
    Append(bs, [listing        |-> validated_data.listing,
                user           |-> user,
                check_in_date  |-> validated_data.check_in_date,
                check_out_date |-> validated_data.check_out_date,
                status         |-> DefaultStatus])

\* mutant: only completed bookings are refused
cancel_rejects_completedOnly(status) == status = "completed"

\* mutant: the check of confirm copied into cancel
cancel_rejects_notPending(status) == status # "pending"

\* cancel: if booking.status in ['cancelled', 'completed']
cancel_rejects(status) == status \in {"cancelled", "completed"}

\* mutant: the check of cancel copied into confirm
confirm_rejects_terminal(status) == status \in {"cancelled", "completed"}

\* confirm: if booking.status != 'pending'
confirm_rejects(status) == status # "pending"

\* mutant: the status is written to every booking of the user
save_userWide(bs, pk, obj) ==
    [i \in DOMAIN bs |-> IF bs[i].user = obj.user
                         THEN [bs[i] EXCEPT !.status = obj.status]
                         ELSE bs[i]]

\* booking.save(): writes the in-memory object back to its row
save(bs, pk, obj) == [bs EXCEPT ![pk] = obj]

\* ---- responses ----
NoReq == [actor |-> "none", pk |-> 0, listing |-> 0,
          check_in_date |-> 0, check_out_date |-> 0, status |-> "none"]

\* Response(data, status=code): err is the kind of error, named the booking
\* status quoted in the error message, result the listing ids returned,
\* dated whether the listing query applied the date filter.
Response(op, code, err, named, result, dated) ==
    [op |-> op, code |-> code, err |-> err, named |-> named,
     result |-> result, dated |-> dated]

InitListings ==
    << [id |-> 1, is_active |-> TRUE,  price_per_night |-> 1, created_by |-> "alice"],
       [id |-> 2, is_active |-> TRUE,  price_per_night |-> 3, created_by |-> "bob"],
       [id |-> 3, is_active |-> FALSE, price_per_night |-> 1, created_by |-> "alice"] >>

ListingIds == {1, 2, 3}
PKs == 1..(MaxBookings + 1)

Init ==
    /\ listings = InitListings
    /\ bookings = << >>
    /\ pc = [w \in Workers |-> "idle"]
    /\ req = [w \in Workers |-> NoReq]
    /\ last = Response("none", 0, "none", "none", << >>, FALSE)

\* ======================= handlers, one request at a time =================

\* ListingViewSet.list: GET /listings/
list_result(ls, bs, min_price, max_price, check_in, check_out) ==
    Response("list", 200, "none", "none",
             Ids(Listing_get_queryset(ls, bs, min_price, max_price,
                                      check_in, check_out)),
             Truthy(check_in) /\ Truthy(check_out))

\* BookingViewSet.create: POST /bookings/ (is_valid, then perform_create)
create_result(ls, bs, user, listing, check_in, check_out) ==
    LET v == validate(ls, bs, listing, check_in, check_out)
    IN  IF v = "ok"
        THEN [response |-> Response("create", 201, "none", "none", << >>, FALSE),
              bookings |-> perform_create(bs,
                               [listing        |-> listing,
                                check_in_date  |-> check_in,
                                check_out_date |-> check_out], user)]
        ELSE [response |-> Response("create", 400, v, "none", << >>, FALSE),
              bookings |-> bs]

\* mutant: cancel writes the status of confirm
cancel_result_confirms(bs, user, pk) ==
    IF pk \notin Booking_get_queryset(bs, user)
    THEN [response |-> Response("cancel", 404, "NotFound", "none", << >>, FALSE),
          bookings |-> bs]
    ELSE LET booking == bs[pk]
         IN  IF cancel_rejects(booking.status)
             THEN [response |-> Response("cancel", 400, "InvalidTransition",
                                         booking.status, << >>, FALSE),
                   bookings |-> bs]
             ELSE [response |-> Response("cancel", 200, "none", "none", << >>, FALSE),
                   bookings |-> save(bs, pk, [booking EXCEPT !.status = "confirmed"])]

\* BookingViewSet.cancel: POST /bookings/{pk}/cancel/
cancel_result(bs, user, pk) ==
    IF pk \notin Booking_get_queryset(bs, user)
    THEN [response |-> Response("cancel", 404, "NotFound", "none", << >>, FALSE),
          bookings |-> bs]
    ELSE LET booking == bs[pk]
         IN  IF cancel_rejects(booking.status)
             THEN [response |-> Response("cancel", 400, "InvalidTransition",
                                         booking.status, << >>, FALSE),
                   bookings |-> bs]
             ELSE [response |-> Response("cancel", 200, "none", "none", << >>, FALSE),
                   bookings |-> save(bs, pk, [booking EXCEPT !.status = "cancelled"])]

\* mutant: confirm writes completed
confirm_result_completes(bs, user, pk) ==
    IF pk \notin Booking_get_queryset(bs, user)
    THEN [response |-> Response("confirm", 404, "NotFound", "none", << >>, FALSE),
          bookings |-> bs]
    ELSE LET booking == bs[pk]
         IN  IF confirm_rejects(booking.status)
             THEN [response |-> Response("confirm", 400, "InvalidTransition",
                                         booking.status, << >>, FALSE),
                   bookings |-> bs]
             ELSE [response |-> Response("confirm", 200, "none", "none", << >>, FALSE),
                   bookings |-> save(bs, pk, [booking EXCEPT !.status = "completed"])]

\* BookingViewSet.confirm: POST /bookings/{pk}/confirm/
confirm_result(bs, user, pk) ==
    IF pk \notin Booking_get_queryset(bs, user)
    THEN [response |-> Response("confirm", 404, "NotFound", "none", << >>, FALSE),
          bookings |-> bs]
    ELSE LET booking == bs[pk]
         IN  IF confirm_rejects(booking.status)
             THEN [response |-> Response("confirm", 400, "InvalidTransition",
                                         booking.status, << >>, FALSE),
                   bookings |-> bs]
             ELSE [response |-> Response("confirm", 200, "none", "none", << >>, FALSE),
                   bookings |-> save(bs, pk, [booking EXCEPT !.status = "confirmed"])]

\* mutant: the 400 is returned only when both dates are missing
available_result_bothMissing(ls, bs, min_price, max_price, check_in, check_out) ==
    IF ~ Truthy(check_in) /\ ~ Truthy(check_out)
    THEN Response("available", 400, "BothDatesRequired", "none", << >>, FALSE)
    ELSE Response("available", 200, "none", "none",
                  Ids(Listing_get_queryset(ls, bs, min_price, max_price,
                                           check_in, check_out)),
                  TRUE)

\* ListingViewSet.available: GET /listings/available/
available_result(ls, bs, min_price, max_price, check_in, check_out) ==
    IF ~ Truthy(check_in) \/ ~ Truthy(check_out)
    THEN Response("available", 400, "BothDatesRequired", "none", << >>, FALSE)
    ELSE Response("available", 200, "none", "none",
                  Ids(Listing_get_queryset(ls, bs, min_price, max_price,
                                           check_in, check_out)),
                  TRUE)

available(min_price, max_price, check_in, check_out) ==
    /\ last' = available_result(listings, bookings, min_price, max_price,
                                check_in, check_out)
    /\ UNCHANGED <<listings, bookings, pc, req>>

\* mutant: a dated search holds the first listing it returns for the dates
List_holds(min_price, max_price, check_in, check_out) ==
    LET r == list_result(listings, bookings, min_price, max_price,
                         check_in, check_out)
    IN  /\ last' = r
        /\ bookings' = IF r.dated /\ r.result # << >> /\ check_in < check_out
                       THEN Append(bookings,
                                   [listing |-> r.result[1], user |-> "none",
                                    check_in_date |-> check_in,
                                    check_out_date |-> check_out,
                                    status |-> "pending"])
                       ELSE bookings
        /\ UNCHANGED <<listings, pc, req>>

List(min_price, max_price, check_in, check_out) ==
    /\ last' = list_result(listings, bookings, min_price, max_price,
                           check_in, check_out)
    /\ UNCHANGED <<listings, bookings, pc, req>>

Create(user, listing, check_in, check_out) ==
    LET r == create_result(listings, bookings, user, listing, check_in, check_out)
    IN  /\ Len(r.bookings) <= MaxBookings
        /\ bookings' = r.bookings
        /\ last' = r.response
        /\ UNCHANGED <<listings, pc, req>>

cancel(user, pk) ==
    LET r == cancel_result(bookings, user, pk)
    IN  /\ bookings' = r.bookings
        /\ last' = r.response
        /\ UNCHANGED <<listings, pc, req>>

confirm(user, pk) ==
    LET r == confirm_result(bookings, user, pk)
    IN  /\ bookings' = r.bookings
        /\ last' = r.response
        /\ UNCHANGED <<listings, pc, req>>

\* settlement after check-out, outside the views: confirmed -> completed
ExternalComplete(pk) ==
    /\ pk \in DOMAIN bookings
    /\ bookings[pk].status = "confirmed"
    /\ bookings' = [bookings EXCEPT ![pk].status = "completed"]
    /\ UNCHANGED <<listings, pc, req, last>>

Next ==
    \/ \E mn \in PriceParams, mx \in PriceParams,
          ci \in DateParams, co \in DateParams : List(mn, mx, ci, co)
    \/ \E mn \in PriceParams, mx \in PriceParams,
          ci \in DateParams, co \in DateParams : available(mn, mx, ci, co)
    \/ \E u \in Users, l \in ListingIds,
          ci \in BodyDates, co \in BodyDates : Create(u, l, ci, co)
    \/ \E u \in Users, pk \in PKs : cancel(u, pk)
    \/ \E u \in Users, pk \in PKs : confirm(u, pk)
    \/ \E pk \in PKs : ExternalComplete(pk)

Spec == Init /\ [][Next]_vars

\* the requests of the core alone, without the settlement outside the views
NextCore ==
    \/ \E mn \in PriceParams, mx \in PriceParams,
          ci \in DateParams, co \in DateParams : List(mn, mx, ci, co)
    \/ \E u \in Users, l \in ListingIds,
          ci \in BodyDates, co \in BodyDates : Create(u, l, ci, co)
    \/ \E u \in Users, pk \in PKs : cancel(u, pk)
    \/ \E u \in Users, pk \in PKs : confirm(u, pk)

SpecCore == Init /\ [][NextCore]_vars

\* ======================= listing mutations ===============================
\* ModelViewSet update, partial_update and destroy of ListingViewSet, guarded
\* by get_permissions; the object is looked up in queryset.

Anonymous == "anonymous"
Actors == Users \cup {Anonymous}
ListingPrices == {1, 3}

\* get_permissions: IsAuthenticated for create, update, partial_update, destroy
get_permissions(actor) == actor \in Users

\* the position of listing id in the table, 0 when get_object raises 404
Lookup(ls, id) ==
    IF \E i \in DOMAIN ls : ls[i].id = id /\ ls[i].is_active
    THEN CHOOSE i \in DOMAIN ls : ls[i].id = id /\ ls[i].is_active
    ELSE 0

Refused(ls, op, actor, id) ==
    IF ~ get_permissions(actor)
    THEN Response(op, 403, "NotAuthenticated", "none", << >>, FALSE)
    ELSE Response(op, 404, "NotFound", "none", << >>, FALSE)

\* PUT /listings/{id}/
ListingUpdate(actor, id, price, active) ==
    /\ IF get_permissions(actor) /\ Lookup(listings, id) # 0
       THEN /\ listings' = [listings EXCEPT ![Lookup(listings, id)] =
                                [@ EXCEPT !.price_per_night = price,
                                          !.is_active = active]]
            /\ last' = Response("update", 200, "none", "none", << >>, FALSE)
       ELSE /\ last' = Refused(listings, "update", actor, id)
            /\ UNCHANGED listings
    /\ UNCHANGED <<bookings, pc, req>>

\* PATCH /listings/{id}/ with is_active alone
ListingPartialUpdate(actor, id, active) ==
    /\ IF get_permissions(actor) /\ Lookup(listings, id) # 0
       THEN /\ listings' = [listings EXCEPT ![Lookup(listings, id)].is_active = active]
            /\ last' = Response("partial_update", 200, "none", "none", << >>, FALSE)
       ELSE /\ last' = Refused(listings, "partial_update", actor, id)
            /\ UNCHANGED listings
    /\ UNCHANGED <<bookings, pc, req>>

\* DELETE /listings/{id}/: the row is deleted
ListingDestroy(actor, id) ==
    /\ IF get_permissions(actor) /\ Lookup(listings, id) # 0
       THEN /\ listings' = SelectSeq(listings, LAMBDA l : l.id # id)
            /\ last' = Response("destroy", 204, "none", "none", << >>, FALSE)
       ELSE /\ last' = Refused(listings, "destroy", actor, id)
            /\ UNCHANGED listings
    /\ UNCHANGED <<bookings, pc, req>>

NextListings ==
    \/ \E mn \in PriceParams, mx \in PriceParams,
          ci \in DateParams, co \in DateParams : List(mn, mx, ci, co)
    \/ \E a \in Actors, l \in ListingIds, p \in ListingPrices, act \in BOOLEAN :
          ListingUpdate(a, l, p, act)
    \/ \E a \in Actors, l \in ListingIds, act \in BOOLEAN :
          ListingPartialUpdate(a, l, act)
    \/ \E a \in Actors, l \in ListingIds : ListingDestroy(a, l)

SpecListings == Init /\ [][NextListings]_vars

\* ======================= handlers on concurrent workers ==================
\* The response of a concurrent request goes to its own client and is not
\* recorded; last keeps its value.  A request refused at its first step (a
\* failed validation, a 404 of get_object) changes nothing and is a
\* stuttering step.

\* create requests that passed validation and have not saved yet
InFlightCreates == Cardinality({w \in Workers : pc[w] = "create"})

\* BookingViewSet.create, first step: serializer.is_valid()
CreateValidate(w, user, listing, check_in, check_out) ==
    /\ pc[w] = "idle"
    /\ Len(bookings) + InFlightCreates < MaxBookings
    /\ validate(listings, bookings, listing, check_in, check_out) = "ok"
    /\ pc' = [pc EXCEPT ![w] = "create"]
    /\ req' = [req EXCEPT ![w] =
                  [actor |-> user, pk |-> 0, listing |-> listing,
                   check_in_date |-> check_in, check_out_date |-> check_out,
                   status |-> "none"]]
    /\ UNCHANGED <<listings, bookings, last>>

\* BookingViewSet.create, second step: perform_create
CreateSave(w) ==
    /\ pc[w] = "create"
    /\ bookings' = perform_create(bookings, req[w], req[w].actor)
    /\ pc' = [pc EXCEPT ![w] = "idle"]
    /\ req' = [req EXCEPT ![w] = NoReq]
    /\ UNCHANGED <<listings, last>>

\* booking = self.get_object(): the row is copied into the request
GetObject(w, user, pk, op) ==
    /\ pc[w] = "idle"
    /\ pk \in Booking_get_queryset(bookings, user)
    /\ pc' = [pc EXCEPT ![w] = op]
    /\ req' = [req EXCEPT ![w] =
                  [actor |-> user, pk |-> pk,
                   listing |-> bookings[pk].listing,
                   check_in_date |-> bookings[pk].check_in_date,
                   check_out_date |-> bookings[pk].check_out_date,
                   status |-> bookings[pk].status]]
    /\ UNCHANGED <<listings, bookings, last>>

\* the in-memory booking object of worker w, with its status set
Obj(w, status) ==
    [listing        |-> req[w].listing,
     user           |-> req[w].actor,
     check_in_date  |-> req[w].check_in_date,
     check_out_date |-> req[w].check_out_date,
     status         |-> status]

\* cancel, second step: the status check on the copy, then booking.save()
CancelWrite(w) ==
    /\ pc[w] = "cancel"
    /\ bookings' = IF cancel_rejects(req[w].status)
                   THEN bookings
                   ELSE save(bookings, req[w].pk, Obj(w, "cancelled"))
    /\ pc' = [pc EXCEPT ![w] = "idle"]
    /\ req' = [req EXCEPT ![w] = NoReq]
    /\ UNCHANGED <<listings, last>>

\* confirm, second step: the status check on the copy, then booking.save()
ConfirmWrite(w) ==
    /\ pc[w] = "confirm"
    /\ bookings' = IF confirm_rejects(req[w].status)
                   THEN bookings
                   ELSE save(bookings, req[w].pk, Obj(w, "confirmed"))
    /\ pc' = [pc EXCEPT ![w] = "idle"]
    /\ req' = [req EXCEPT ![w] = NoReq]
    /\ UNCHANGED <<listings, last>>

NextConc ==
    \/ \E w \in Workers, u \in Users, l \in ListingIds,
          ci \in Days, co \in Days : CreateValidate(w, u, l, ci, co)
    \/ \E w \in Workers : CreateSave(w)
    \/ \E w \in Workers, u \in Users, pk \in PKs : GetObject(w, u, pk, "cancel")
    \/ \E w \in Workers : CancelWrite(w)
    \/ \E w \in Workers, u \in Users, pk \in PKs : GetObject(w, u, pk, "confirm")
    \/ \E w \in Workers : ConfirmWrite(w)
    \/ \E pk \in PKs : ExternalComplete(pk)

SpecConc == Init /\ [][NextConc]_vars

\* ============================== properties ================================

Active(b) == b.status \in {"pending", "confirmed"}

\* the half-open intervals [a1, a2) and [b1, b2) share a day
ShareDay(a1, a2, b1, b2) ==
    \E d \in 0..(MaxDay + 1) : a1 <= d /\ d < a2 /\ b1 <= d /\ d < b2

ActiveListingIds == { listings[i].id : i \in { k \in DOMAIN listings : listings[k].is_active } }

Range(q) == { q[i] : i \in DOMAIN q }

\* the listing ids a date-filtered search returns, without a price filter
Available(bs, ci, co) ==
    Range(Ids(Listing_get_queryset(listings, bs, Absent, Absent, ci, co)))

\* C1 -- No double-booking: any two distinct pending/confirmed bookings of the
\* same listing have disjoint half-open intervals [check_in_date, check_out_date),
\* whatever the interleaving of concurrent create, confirm and cancel requests.
C1_NoDoubleBooking ==
    \A i \in DOMAIN bookings : \A j \in DOMAIN bookings :
        (i < j /\ bookings[i].listing = bookings[j].listing
               /\ Active(bookings[i]) /\ Active(bookings[j]))
        => ~ ShareDay(bookings[i].check_in_date, bookings[i].check_out_date,
                      bookings[j].check_in_date, bookings[j].check_out_date)

\* C2 -- createBooking on an active listing with check_in < check_out fails with
\* Conflict and leaves the booking store as it was whenever a pending or
\* confirmed booking b of that listing has b.check_in < check_out and
\* b.check_out > check_in.
C2_ConflictRejected ==
    \A u \in Users : \A l \in ActiveListingIds : \A ci \in Days : \A co \in Days :
        (ci < co /\ \E i \in DOMAIN bookings :
                        /\ bookings[i].listing = l
                        /\ Active(bookings[i])
                        /\ bookings[i].check_in_date < co
                        /\ bookings[i].check_out_date > ci)
        => LET r == create_result(listings, bookings, u, l, ci, co)
           IN  r.response.err = "Conflict" /\ r.bookings = bookings

\* C2 witness: a create request was just rejected with Conflict and an active
\* booking is in the store.
C2_Witness ==
    /\ last.op = "create" /\ last.err = "Conflict"
    /\ \E i \in DOMAIN bookings : Active(bookings[i])

\* C3 -- Search/booking consistency: whenever the date-filtered listing query
\* for a range check_in < check_out drops a listing that the same query without
\* dates returns, createBooking for that listing and range, evaluated on the
\* same store, fails with Conflict.
C3_SearchBookingConsistency ==
    \A mn \in PriceParams : \A mx \in PriceParams :
    \A ci \in Days : \A co \in Days : \A l \in ListingIds : \A u \in Users :
        (/\ ci < co
         /\ l \in Range(Ids(Listing_get_queryset(listings, bookings, mn, mx, Absent, Absent)))
         /\ l \notin Range(Ids(Listing_get_queryset(listings, bookings, mn, mx, ci, co))))
        => create_result(listings, bookings, u, l, ci, co).response.err = "Conflict"

\* C3 witness: a dated search has just returned fewer listings than the
\* catalog holds, so some listing was excluded for the dates.
C3_Witness ==
    /\ last.op = "list" /\ last.dated
    /\ Range(last.result) # ActiveListingIds
    /\ \E i \in DOMAIN bookings : bookings[i].listing \notin Range(last.result)
                                  /\ Active(bookings[i])

\* C4 -- Half-open boundary: a request that starts on the check-out day of a
\* pending/confirmed booking is neither rejected nor filtered out because of that
\* booking, while a request sharing a day with it is rejected with Conflict and
\* its listing is dropped by the availability filter.
C4_HalfOpenBoundary ==
    \A i \in DOMAIN bookings : \A u \in Users : \A ci \in Days : \A co \in Days :
        LET b == bookings[i]
            others == { j \in DOMAIN bookings :
                          /\ j # i /\ bookings[j].listing = b.listing
                          /\ Active(bookings[j])
                          /\ ShareDay(bookings[j].check_in_date,
                                      bookings[j].check_out_date, ci, co) }
            r == create_result(listings, bookings, u, b.listing, ci, co)
        IN  (Active(b) /\ ci < co /\ b.listing \in ActiveListingIds) =>
              /\ (ci = b.check_out_date /\ others = {}) =>
                     /\ r.response.code = 201
                     /\ b.listing \in Available(bookings, ci, co)
              /\ ShareDay(b.check_in_date, b.check_out_date, ci, co) =>
                     /\ r.response.err = "Conflict"
                     /\ b.listing \notin Available(bookings, ci, co)

\* C4 witness: two active bookings of one listing stand back to back, the
\* second starting on the day the first ends.
C4_Witness ==
    \E i \in DOMAIN bookings : \E j \in DOMAIN bookings :
        /\ i < j /\ bookings[i].listing = bookings[j].listing
        /\ Active(bookings[i]) /\ Active(bookings[j])
        /\ bookings[j].check_in_date = bookings[i].check_out_date

\* C5 -- Cancellation frees capacity: right after a successful cancel of booking
\* A, if no other pending/confirmed booking of A's listing shares a day with A's
\* dates, createBooking for the same listing and dates succeeds and the
\* availability filter returns the listing for those dates.
C5_CancellationFreesCapacity ==
    \A u \in Users : \A pk \in DOMAIN bookings : \A u2 \in Users :
        LET r == cancel_result(bookings, u, pk)
            A == bookings[pk]
            others == { j \in DOMAIN r.bookings :
                          /\ j # pk /\ r.bookings[j].listing = A.listing
                          /\ Active(r.bookings[j])
                          /\ ShareDay(r.bookings[j].check_in_date,
                                      r.bookings[j].check_out_date,
                                      A.check_in_date, A.check_out_date) }
        IN  (r.response.code = 200 /\ others = {} /\ A.listing \in ActiveListingIds) =>
              /\ create_result(listings, r.bookings, u2, A.listing,
                               A.check_in_date, A.check_out_date).response.code = 201
              /\ A.listing \in Available(r.bookings, A.check_in_date, A.check_out_date)

\* C5 witness: booking B was just created on the listing and dates of an
\* earlier booking A that is cancelled.
C5_Witness ==
    /\ last.op = "create" /\ last.code = 201
    /\ \E i \in DOMAIN bookings :
          /\ i < Len(bookings)
          /\ bookings[i].status = "cancelled"
          /\ bookings[i].listing = bookings[Len(bookings)].listing
          /\ bookings[i].check_in_date = bookings[Len(bookings)].check_in_date
          /\ bookings[i].check_out_date = bookings[Len(bookings)].check_out_date
          /\ bookings[Len(bookings)].status = "pending"

\* C6 -- Terminal immutability: confirm on a cancelled booking fails with
\* InvalidTransition naming cancelled and changes nothing; cancel on a pending or
\* confirmed booking succeeds, and a second cancel right after it fails with
\* InvalidTransition naming cancelled.
C6_TerminalImmutability ==
    \A u \in Users : \A pk \in Booking_get_queryset(bookings, u) :
        /\ bookings[pk].status = "cancelled" =>
              LET r == confirm_result(bookings, u, pk)
              IN  /\ r.response.err = "InvalidTransition"
                  /\ r.response.named = "cancelled"
                  /\ r.bookings = bookings
        /\ Active(bookings[pk]) =>
              LET r1 == cancel_result(bookings, u, pk)
                  r2 == cancel_result(r1.bookings, u, pk)
              IN  /\ r1.response.code = 200
                  /\ r2.response.err = "InvalidTransition"
                  /\ r2.response.named = "cancelled"
                  /\ r2.bookings = r1.bookings

\* C6 witness: a cancel request was just rejected, its message naming cancelled.
C6_Witness ==
    /\ last.op = "cancel" /\ last.err = "InvalidTransition" /\ last.named = "cancelled"
    /\ \E i \in DOMAIN bookings : bookings[i].status = "cancelled"

\* C7 -- confirm on a booking of the requesting user succeeds exactly when the
\* booking is pending and then sets its status to confirmed; from confirmed,
\* cancelled or completed it fails with InvalidTransition naming that status and
\* changes nothing.
C7_ConfirmOnlyFromPending ==
    \A u \in Users : \A pk \in Booking_get_queryset(bookings, u) :
        LET r == confirm_result(bookings, u, pk)
            s == bookings[pk].status
        IN  /\ (r.response.code = 200) <=> (s = "pending")
            /\ s = "pending" =>
                  r.bookings = [bookings EXCEPT ![pk].status = "confirmed"]
            /\ s # "pending" =>
                  /\ r.response.err = "InvalidTransition"
                  /\ r.response.named = s
                  /\ r.bookings = bookings

\* C7 witness: a confirm request on a completed booking was just rejected.
C7_Witness ==
    /\ last.op = "confirm" /\ last.err = "InvalidTransition" /\ last.named = "completed"
    /\ \E i \in DOMAIN bookings : bookings[i].status = "completed"

\* C8 -- cancel on a booking of the requesting user succeeds exactly when the
\* booking is pending or confirmed and then sets its status to cancelled; from
\* cancelled or completed it fails with InvalidTransition and changes nothing.
C8_CancelFromPendingOrConfirmed ==
    \A u \in Users : \A pk \in Booking_get_queryset(bookings, u) :
        LET r == cancel_result(bookings, u, pk)
            s == bookings[pk].status
        IN  /\ (r.response.code = 200) <=> (s \in {"pending", "confirmed"})
            /\ s \in {"pending", "confirmed"} =>
                  r.bookings = [bookings EXCEPT ![pk].status = "cancelled"]
            /\ s \in {"cancelled", "completed"} =>
                  /\ r.response.err = "InvalidTransition"
                  /\ r.bookings = bookings

\* C8 witness: a cancel request on a completed booking was just rejected.
C8_Witness ==
    /\ last.op = "cancel" /\ last.err = "InvalidTransition" /\ last.named = "completed"
    /\ \E i \in DOMAIN bookings : bookings[i].status = "completed"

\* C9 -- every successful createBooking appends exactly one booking, pending,
\* owned by the requesting user, on the requested listing and dates; and no step
\* adds a booking in another way or in another status.
C9_CreatedPending ==
    /\ [](\A u \in Users : \A l \in ListingIds : \A ci \in BodyDates : \A co \in BodyDates :
            LET r == create_result(listings, bookings, u, l, ci, co)
            IN  r.response.code = 201 =>
                  r.bookings = Append(bookings,
                                      [listing |-> l, user |-> u,
                                       check_in_date |-> ci, check_out_date |-> co,
                                       status |-> "pending"]))
    /\ [][Len(bookings') # Len(bookings) =>
            /\ Len(bookings') = Len(bookings) + 1
            /\ SubSeq(bookings', 1, Len(bookings)) = bookings
            /\ bookings'[Len(bookings')].status = "pending"
            /\ last'.op = "create" /\ last'.code = 201]_vars

\* C9 witness: a create request has just succeeded and the newest booking is
\* pending.
C9_Witness ==
    /\ last.op = "create" /\ last.code = 201
    /\ Len(bookings) = MaxBookings
    /\ bookings[Len(bookings)].status = "pending"
    /\ bookings[1].user # bookings[Len(bookings)].user

\* the catalog: the active listings within the price range, in stored order
Catalog(min_price, max_price) ==
    SelectSeq(listings, LAMBDA l :
        /\ l.is_active
        /\ (min_price = Absent \/ l.price_per_night >= min_price)
        /\ (max_price = Absent \/ l.price_per_night <= max_price))

\* C10 -- No-filter default: when check_in_date, check_out_date or both are
\* absent or empty, the listing query returns the whole catalog in its order,
\* whatever bookings exist.
C10_NoFilterDefault ==
    \A mn \in PriceParams : \A mx \in PriceParams :
    \A ci \in DateParams : \A co \in DateParams :
        (~ Truthy(ci) \/ ~ Truthy(co)) =>
            Listing_get_queryset(listings, bookings, mn, mx, ci, co) = Catalog(mn, mx)

\* C10 witness: an undated search has just returned every active listing while
\* every active listing carries a pending or confirmed booking.
C10_Witness ==
    /\ last.op = "list" /\ ~ last.dated
    /\ Range(last.result) = ActiveListingIds
    /\ \A l \in ActiveListingIds :
          \E i \in DOMAIN bookings : bookings[i].listing = l /\ Active(bookings[i])

\* C11 -- When both dates are given, the listing query returns exactly the
\* catalog listings that have no pending or confirmed booking b with
\* b.check_in < check_out and b.check_out > check_in, in catalog order; cancelled
\* and completed bookings exclude nothing.
C11_FilterExact ==
    \A mn \in PriceParams : \A mx \in PriceParams :
    \A ci \in Days : \A co \in Days :
        Listing_get_queryset(listings, bookings, mn, mx, ci, co)
          = SelectSeq(Catalog(mn, mx), LAMBDA l :
                ~ \E i \in DOMAIN bookings :
                      /\ bookings[i].listing = l.id
                      /\ Active(bookings[i])
                      /\ bookings[i].check_in_date < co
                      /\ bookings[i].check_out_date > ci)

\* C11 witness: a dated search has just returned a listing whose only bookings
\* are cancelled or completed and has dropped a listing with an active booking.
C11_Witness ==
    /\ last.op = "list" /\ last.dated
    /\ \E l \in Range(last.result) :
          /\ \E i \in DOMAIN bookings : bookings[i].listing = l
          /\ \A i \in DOMAIN bookings :
                bookings[i].listing = l => ~ Active(bookings[i])
    /\ \E i \in DOMAIN bookings :
          Active(bookings[i]) /\ bookings[i].listing \notin Range(last.result)

\* C12 -- No request of the core (create, confirm, cancel, list) puts a booking
\* into status completed: starting without completed bookings, none is ever
\* completed.
C12_NeverCompleted ==
    \A i \in DOMAIN bookings : bookings[i].status # "completed"

\* C12 witness: a confirm has just succeeded and the store holds a confirmed
\* and a cancelled booking.
C12_Witness ==
    /\ last.op = "confirm" /\ last.code = 200
    /\ \E i \in DOMAIN bookings : bookings[i].status = "confirmed"
    /\ \E i \in DOMAIN bookings : bookings[i].status = "cancelled"

\* C13 -- createBooking with check_in >= check_out, or on an inactive listing, is
\* rejected with ValidationError or NotFound and persists nothing; every booking
\* in the store has check_in_date < check_out_date and an active listing.
C13_PreconditionsEnforced ==
    /\ \A u \in Users : \A l \in ListingIds : \A ci \in BodyDates : \A co \in BodyDates :
          LET r == create_result(listings, bookings, u, l, ci, co)
          IN  ((Truthy(ci) /\ Truthy(co) /\ ci >= co) \/ l \notin ActiveListingIds) =>
                 /\ r.response.err \in {"ValidationError", "NotFound"}
                 /\ r.bookings = bookings
    /\ \A i \in DOMAIN bookings :
          /\ bookings[i].check_in_date < bookings[i].check_out_date
          /\ bookings[i].listing \in ActiveListingIds

\* C13 witness: a create request on the inactive listing was just rejected as
\* not found while bookings exist.
C13_Witness ==
    /\ last.op = "create" /\ last.err = "NotFound"
    /\ bookings # << >>

\* C14 -- Inactive listings are never returned by the listing search or by the
\* available action, with or without dates, whatever bookings exist.
C14_InactiveNeverReturned ==
    \A mn \in PriceParams : \A mx \in PriceParams :
    \A ci \in DateParams : \A co \in DateParams :
        /\ Range(list_result(listings, bookings, mn, mx, ci, co).result)
              \subseteq ActiveListingIds
        /\ Range(available_result(listings, bookings, mn, mx, ci, co).result)
              \subseteq ActiveListingIds

\* C14 witness: an undated search has just returned listings, and an inactive
\* listing is in the table.
C14_Witness ==
    /\ last.op = "list" /\ ~ last.dated /\ last.result # << >>
    /\ \E i \in DOMAIN listings : ~ listings[i].is_active
    /\ bookings # << >>

IsOwner(actor, id) ==
    \E i \in DOMAIN listings : listings[i].id = id /\ listings[i].created_by = actor

\* C15 -- A listing is updated, partially updated or removed only by the actor
\* who created it: such a request from any other actor leaves the listings as
\* they were.
C15_OnlyOwnerMutates ==
    [][\A a \in Actors : \A l \in ListingIds : \A p \in ListingPrices : \A act \in BOOLEAN :
          ((\/ ListingUpdate(a, l, p, act)
            \/ ListingPartialUpdate(a, l, act)
            \/ ListingDestroy(a, l)) /\ ~ IsOwner(a, l))
          => listings' = listings]_vars

\* C16 -- The availability filter has no side effects and is repeatable: a
\* listing search leaves the listing and booking stores unchanged, and the
\* answer it gave is the answer the same search gives on the stores it left.
C16_FilterPure ==
    /\ [](last.op = "list" =>
            \E mn \in PriceParams : \E mx \in PriceParams :
            \E ci \in DateParams : \E co \in DateParams :
                list_result(listings, bookings, mn, mx, ci, co) = last)
    /\ [][(last'.op = "list" /\ last' # last) =>
             (listings' = listings /\ bookings' = bookings)]_vars

\* C16 witness: a dated search has just answered while an active booking exists.
C16_Witness ==
    /\ last.op = "list" /\ last.dated /\ last.result # << >>
    /\ \E i \in DOMAIN bookings : Active(bookings[i])

\* C17 -- Terminal states are permanent under concurrency: once a booking is
\* cancelled or completed its status never changes, whatever the interleaving of
\* the read, check and write steps of concurrent confirm and cancel requests.
C17_TerminalPermanent ==
    [][\A pk \in DOMAIN bookings :
          bookings[pk].status \in {"cancelled", "completed"}
          => bookings'[pk].status = bookings[pk].status]_vars

\* C18 -- The available action answers 400 with no listings whenever
\* check_in_date or check_out_date is missing or empty, and otherwise answers
\* exactly the result of the date-filtered listing query.
C18_AvailableRequiresDates ==
    \A mn \in PriceParams : \A mx \in PriceParams :
    \A ci \in DateParams : \A co \in DateParams :
        LET r == available_result(listings, bookings, mn, mx, ci, co)
        IN  /\ (~ Truthy(ci) \/ ~ Truthy(co)) => (r.code = 400 /\ r.result = << >>)
            /\ (Truthy(ci) /\ Truthy(co)) =>
                  /\ r.code = 200
                  /\ r.result = list_result(listings, bookings, mn, mx, ci, co).result

\* C18 witness: the available action has just answered 400 while bookings exist.
C18_Witness ==
    /\ last.op = "available" /\ last.code = 400
    /\ \E i \in DOMAIN bookings : Active(bookings[i])

\* C19 -- A rejected confirm or cancel leaves the booking store unchanged; a
\* successful one changes the status of the target booking and nothing else.
C19_LifecycleFrame ==
    \A u \in Users : \A pk \in PKs :
        \A r \in {cancel_result(bookings, u, pk), confirm_result(bookings, u, pk)} :
            /\ r.response.code # 200 => r.bookings = bookings
            /\ r.response.code = 200 =>
                  /\ DOMAIN r.bookings = DOMAIN bookings
                  /\ \A j \in DOMAIN bookings :
                        /\ r.bookings[j].listing = bookings[j].listing
                        /\ r.bookings[j].user = bookings[j].user
                        /\ r.bookings[j].check_in_date = bookings[j].check_in_date
                        /\ r.bookings[j].check_out_date = bookings[j].check_out_date
                        /\ j # pk => r.bookings[j].status = bookings[j].status

\* C19 witness: a cancel has just succeeded on one of two bookings of the same
\* user, and the other is still pending.
C19_Witness ==
    /\ last.op = "cancel" /\ last.code = 200
    /\ \E i \in DOMAIN bookings : \E j \in DOMAIN bookings :
          /\ i # j /\ bookings[i].user = bookings[j].user
          /\ bookings[i].status = "cancelled" /\ bookings[j].status = "pending"

\* C20 -- confirm and cancel act only on bookings of the requesting user: a
\* request that targets a booking of another user is answered not found and
\* changes nothing.
C20_OwnBookingsOnly ==
    \A u \in Users : \A pk \in DOMAIN bookings :
        bookings[pk].user # u =>
            \A r \in {cancel_result(bookings, u, pk), confirm_result(bookings, u, pk)} :
                /\ r.response.code = 404
                /\ r.response.err = "NotFound"
                /\ r.bookings = bookings

\* C20 witness: a confirm has just been answered not found while every primary
\* key a request can name but one is a booking, of both users, still pending.
C20_Witness ==
    /\ last.op = "confirm" /\ last.err = "NotFound"
    /\ Len(bookings) = MaxBookings
    /\ \A i \in DOMAIN bookings : bookings[i].status = "pending"
    /\ \E i \in DOMAIN bookings : \E j \in DOMAIN bookings :
          bookings[i].user # bookings[j].user

====
